---- MODULE Spec2Model ----
(***************************************************************************)
(* Model of scripts/prune_repo.py: the Version value type, the retention   *)
(* policy prune_packages, and the orchestration in main (scan, metadata    *)
(* extraction, tool checks, policy, best-effort deletion, exit code).      *)
(*                                                                         *)
(* Two specifications share the module:                                    *)
(*   SpecPrune  applies prune_packages to one package group drawn from a   *)
(*              bounded set, then applies it again to the kept entries;    *)
(*   Spec       runs main over a small repository, lets a run be killed    *)
(*              during its deletion loop, and re-runs main.                *)
(***************************************************************************)
EXTENDS Integers, Sequences, FiniteSets, TLC

(* ---------------------------- bounds ----------------------------------- *)
\* number of entries of a package group in SpecPrune
MaxItems == 3
\* number of invocations of main in one behaviour of Spec
MaxRuns == 3

Majors == {1, 2}
Minors == {0, 1, 2}
Patches == {0, 1}

(* ---------------------------- Version ---------------------------------- *)
\* Version.parse returns None when the string holds no MAJOR.MINOR.PATCH.
None == <<>>

Version(major, minor, patch) == <<major, minor, patch>>

Versions == {Version(a, b, c) : a \in Majors, b \in Minors, c \in Patches}

VersionsOrNone == Versions \cup {None}

\* The current versions SpecPrune draws: those of the highest major. An entry
\* of a major above the current one takes the same branches as an entry of a
\* higher minor (Version_gt holds, is_previous_series does not).
CurrentVersions == {v \in Versions : \A w \in Versions : w[1] <= v[1]}

\* Version.__eq__ : tuple equality of (major, minor, patch)
Version_eq(self, other) ==
    /\ self[1] = other[1]
    /\ self[2] = other[2]
    /\ self[3] = other[3]

\* Version.__lt__ : lexicographic tuple order
Version_lt(self, other) ==
    \/ self[1] < other[1]
    \/ self[1] = other[1] /\ self[2] < other[2]
    \/ self[1] = other[1] /\ self[2] = other[2] /\ self[3] < other[3]

\* functools.total_ordering derives __gt__ from __lt__ and __eq__
Version_gt(self, other) ==
    ~Version_lt(self, other) /\ ~Version_eq(self, other)

is_previous_series_le(self, other) ==
    self[1] = other[1] /\ self[2] <= other[2]

\* Version.is_previous_series : same major, lower minor
is_previous_series(self, other) ==
    self[1] = other[1] /\ self[2] < other[2]

(* ------------------------ prune_packages ------------------------------- *)
\* An entry of a package group is the pair (ver, path) of the source.
Entry(v, p) == [v |-> v, p |-> p]

PathsOf(items) == {items[i].p : i \in DOMAIN items}

\* Version.__eq__ and Version.__lt__ read other.major: comparing a Version
\* with None raises AttributeError (None == None and None is None do not).
compare_raises(a, b) == (a = None) # (b = None)

\* sorted(items, key=version) compares every element of a list of two or
\* more; any comparison that involves None raises.
sorted_raises(items) ==
    Len(items) >= 2 /\ \E i \in DOMAIN items : items[i].v = None

RECURSIVE InsertSorted(_, _)
InsertSorted(s, e) ==
    IF s = <<>> THEN <<e>>
    ELSE IF Version_lt(e.v, Head(s).v) THEN <<e>> \o s
    ELSE <<Head(s)>> \o InsertSorted(Tail(s), e)

RECURSIVE SortPrefix(_, _)
SortPrefix(items, n) ==
    IF n = 0 THEN <<>> ELSE InsertSorted(SortPrefix(items, n - 1), items[n])

\* sorted() is stable: entries of equal version keep their input order
sorted(items) == IF Len(items) <= 1 THEN items ELSE SortPrefix(items, Len(items))

exceeds_current_ge(v, current_ver, allow_greater) ==
    (Version_gt(v, current_ver) \/ Version_eq(v, current_ver)) /\ ~allow_greater

\* line 110: v > current_ver and not allow_greater
exceeds_current(v, current_ver, allow_greater) ==
    Version_gt(v, current_ver) /\ ~allow_greater

\* lines 104-113: the entries that stay in `filtered`
filter_items(items_sorted, current_ver, allow_greater) ==
    SelectSeq(items_sorted,
              LAMBDA e : e.v = None \/ ~exceeds_current(e.v, current_ver, allow_greater))

\* lines 110-111: the entries deleted at once
greater_deleted(items_sorted, current_ver, allow_greater) ==
    {items_sorted[i].p : i \in {j \in DOMAIN items_sorted :
        /\ items_sorted[j].v # None
        /\ exceeds_current(items_sorted[j].v, current_ver, allow_greater)}}

max_by_version_min(s) ==
    s[CHOOSE i \in DOMAIN s :
        /\ \A j \in DOMAIN s : ~Version_lt(s[j].v, s[i].v)
        /\ \A j \in DOMAIN s : j < i => Version_gt(s[j].v, s[i].v)]

\* max(prev_series, key=version): the first entry of the greatest version
max_by_version(s) ==
    s[CHOOSE i \in DOMAIN s :
        /\ \A j \in DOMAIN s : ~Version_gt(s[j].v, s[i].v)
        /\ \A j \in DOMAIN s : j < i => Version_lt(s[j].v, s[i].v)]

rollback_target_if_several(prev_series) ==
    IF Len(prev_series) > 1 THEN {max_by_version(prev_series).p} ELSE {}

\* lines 125-128: the path kept for rollback
rollback_target(prev_series) ==
    IF prev_series # <<>> THEN {max_by_version(prev_series).p} ELSE {}

remaining_deleted_all(filtered, to_keep) == PathsOf(filtered)

\* lines 133-137: every filtered entry not in to_keep is deleted
remaining_deleted(filtered, to_keep) ==
    {filtered[i].p : i \in {j \in DOMAIN filtered : filtered[j].p \notin to_keep}}

Raised == [status |-> "raise", kept |-> {}, deleted |-> {}]

\* prune_packages for the single package name a map can hold (main only
\* stores entries whose name equals app_name); the empty sequence is the
\* empty map.
prune_packages(pkg_map, current_ver, allow_greater) ==
    IF sorted_raises(pkg_map) THEN Raised
    ELSE
    LET items_sorted == sorted(pkg_map)
        filtered == filter_items(items_sorted, current_ver, allow_greater)
        gone == greater_deleted(items_sorted, current_ver, allow_greater)
    IN  IF \E i \in DOMAIN filtered : compare_raises(filtered[i].v, current_ver)
        THEN Raised
        ELSE
        LET exact == {filtered[i].p : i \in {j \in DOMAIN filtered :
                          Version_eq(filtered[j].v, current_ver)}}
            prev_series == SelectSeq(filtered, LAMBDA e :
                          e.v # None /\ is_previous_series(e.v, current_ver))
            to_keep == exact \cup rollback_target(prev_series)
        IN  [status |-> "ok",
             kept |-> to_keep,
             deleted |-> gone \cup remaining_deleted(filtered, to_keep)]

(* ------------------------------ main ----------------------------------- *)
\* The files the two scanned directories can hold: <root>/rpm/x86_64/*.rpm
\* and <root>/deb/pool/main/<a>/<app>/*.deb.
RpmPaths == {"r1", "r2"}
DebPaths == {"d1"}
Paths == RpmPaths \cup DebPaths

app_name == "app"

\* versions the metadata of the repository's files can carry
RepoVersions == {v \in Versions : v[1] = 1 /\ v[3] = 0}

\* What the metadata query of a path yields: the file does not exist, the
\* query fails (CalledProcessError; malformed output and an empty Package
\* field take the same `continue`), or a package name and Version.parse of
\* the version string.
Absent == [kind |-> "absent", name |-> "", v |-> None]
QueryFailed == [kind |-> "fail", name |-> "", v |-> None]
Queried(name, v) == [kind |-> "ok", name |-> name, v |-> v]

MetaOutcomes ==
    {Absent, QueryFailed}
    \cup {Queried(app_name, v) : v \in RepoVersions \cup {None}}
    \cup {Queried("other", v) : v \in {Version(1, 0, 0), Version(1, 2, 0)}}

VARIABLES
    \* SpecPrune
    pkg_map,        \* the group handed to the first call
    decision,       \* result of the first call
    pkg_map2,       \* the kept entries, handed to the second call
    decision2,      \* result of the second call
    stage,          \* "input", "pruned", "repruned"
    \* both
    current_ver,    \* Version.parse(tag); None in Spec when the tag is unparsable
    allow_greater,  \* the allow-greater flag
    \* Spec
    meta,           \* path -> what its metadata query yields
    rpm_tool,       \* shutil.which('rpm') finds the tool
    deb_tool,       \* shutil.which('dpkg-deb') finds the tool
    disk0,          \* the files of the repository before the first run
    disk,           \* the files of the repository now
    run,            \* number of the current invocation of main
    pc,             \* "start", "delete", "exited", "killed"
    rc,             \* the value main returns (1: uncaught exception)
    rpm_map,        \* entries collected for app_name from the .rpm files
    deb_map,        \* entries collected for app_name from the .deb files
    kept,           \* main's kept
    deleted,        \* main's deleted
    todo,           \* paths of `deleted` the deletion loop has not reached
    removed,        \* paths os.remove removed in this run
    failed,         \* some os.remove of this run raised
    prev_clean,     \* the previous run returned and none of its removals raised
    interrupted     \* an earlier run was killed after removing part of its deleted set

prune_vars == <<pkg_map, decision, pkg_map2, decision2, stage>>
main_vars == <<meta, rpm_tool, deb_tool, disk0, disk, run, pc, rc, rpm_map, deb_map,
               kept, deleted, todo, removed, failed, prev_clean, interrupted>>
vars == <<prune_vars, current_ver, allow_greater, main_vars>>

Pending == [status |-> "pending", kept |-> {}, deleted |-> {}]

\* the enumerations of a finite set, as sequences
Perms(S) ==
    {s \in [1..Cardinality(S) -> S] : \A i, j \in DOMAIN s : i # j => s[i] # s[j]}

name_matches_any(name) == TRUE

\* lines 189 and 215: only packages named app_name are processed
name_matches(name) == name = app_name

\* lines 172-192 and 200-218: the entries collected from the listed files
extract(files) ==
    LET usable == SelectSeq(files, LAMBDA p :
                      meta[p].kind = "ok" /\ name_matches(meta[p].name))
    IN  [i \in DOMAIN usable |-> Entry(meta[usable[i]].v, usable[i])]

Exit(code, rpms, debs, k, d) ==
    [rc |-> code, rpm_map |-> rpms, deb_map |-> debs, kept |-> k, deleted |-> d]

on_deb_tool_missing_late(rpms) ==
    LET r == prune_packages(rpms, current_ver, allow_greater)
    IN  Exit(5, rpms, <<>>, r.kept, r.deleted)

\* lines 195-197: return 5 before anything is decided or removed
on_deb_tool_missing(rpms) == Exit(5, rpms, <<>>, {}, {})

\* main, lines 154-229, for the directory listings rpm_files and deb_files:
\* the return code and the kept and deleted sets handed to the deletion loop
main_decide(rpm_files, deb_files) ==
    IF current_ver = None THEN Exit(3, <<>>, <<>>, {}, {})
    ELSE IF rpm_files # <<>> /\ ~rpm_tool THEN Exit(4, <<>>, <<>>, {}, {})
    ELSE
    LET rpms == extract(rpm_files)
    IN  IF deb_files # <<>> /\ ~deb_tool THEN on_deb_tool_missing(rpms)
        ELSE
        LET debs == extract(deb_files)
            r == prune_packages(rpms, current_ver, allow_greater)
            d == prune_packages(debs, current_ver, allow_greater)
        IN  IF r.status = "raise" \/ d.status = "raise"
            THEN Exit(1, rpms, debs, {}, {})
            ELSE Exit(0, rpms, debs, r.kept \cup d.kept, r.deleted \cup d.deleted)

(* --------------------------- SpecPrune --------------------------------- *)
Groups ==
    UNION {{[i \in 1..n |-> Entry(vs[i], i)] : vs \in [1..n -> VersionsOrNone]} :
           n \in 0..MaxItems}

MainIdle ==
    /\ meta = [p \in Paths |-> Absent]
    /\ rpm_tool = TRUE
    /\ deb_tool = TRUE
    /\ disk0 = {}
    /\ disk = {}
    /\ run = 1
    /\ pc = "idle"
    /\ rc = 0
    /\ rpm_map = <<>>
    /\ deb_map = <<>>
    /\ kept = {}
    /\ deleted = {}
    /\ todo = {}
    /\ removed = {}
    /\ failed = FALSE
    /\ prev_clean = FALSE
    /\ interrupted = FALSE

InitPrune ==
    /\ pkg_map \in Groups
    /\ current_ver \in CurrentVersions
    /\ allow_greater \in BOOLEAN
    /\ decision = Pending
    /\ pkg_map2 = <<>>
    /\ decision2 = Pending
    /\ stage = "input"
    /\ MainIdle

\* k, d = prune_packages({name: items}, cur, allow_greater)
CallPrune ==
    /\ stage = "input"
    /\ decision' = prune_packages(pkg_map, current_ver, allow_greater)
    /\ stage' = "pruned"
    /\ UNCHANGED <<pkg_map, pkg_map2, decision2, current_ver, allow_greater, main_vars>>

\* the same call on exactly the kept entries, listed in any order
CallPruneAgain ==
    /\ stage = "pruned"
    /\ decision.status = "ok"
    /\ \E order \in Perms({i \in DOMAIN pkg_map : pkg_map[i].p \in decision.kept}) :
          /\ pkg_map2' = [i \in DOMAIN order |-> pkg_map[order[i]]]
          /\ decision2' = prune_packages(pkg_map2', current_ver, allow_greater)
    /\ stage' = "repruned"
    /\ UNCHANGED <<pkg_map, decision, current_ver, allow_greater, main_vars>>

NextPrune == CallPrune \/ CallPruneAgain

SpecPrune == InitPrune /\ [][NextPrune]_vars

(* ------------------------------ Spec ----------------------------------- *)
Init ==
    /\ pkg_map = <<>>
    /\ decision = Pending
    /\ pkg_map2 = <<>>
    /\ decision2 = Pending
    /\ stage = "idle"
    /\ current_ver \in RepoVersions \cup {None}
    /\ allow_greater \in BOOLEAN
    /\ meta \in [Paths -> MetaOutcomes]
    /\ rpm_tool \in BOOLEAN
    /\ deb_tool \in BOOLEAN
    /\ disk0 = {p \in Paths : meta[p].kind # "absent"}
    /\ disk = disk0
    /\ run = 1
    /\ pc = "start"
    /\ rc = 0
    /\ rpm_map = <<>>
    /\ deb_map = <<>>
    /\ kept = {}
    /\ deleted = {}
    /\ todo = {}
    /\ removed = {}
    /\ failed = FALSE
    /\ prev_clean = FALSE
    /\ interrupted = FALSE

\* main up to the deletion loop. os.listdir lists a directory in arbitrary
\* order, so list_packages yields any enumeration of the files present.
Decide ==
    /\ pc = "start"
    /\ \E rpm_files \in Perms(disk \cap RpmPaths), deb_files \in Perms(disk \cap DebPaths) :
          LET m == main_decide(rpm_files, deb_files)
          IN  /\ rc' = m.rc
              /\ rpm_map' = m.rpm_map
              /\ deb_map' = m.deb_map
              /\ kept' = m.kept
              /\ deleted' = m.deleted
              /\ todo' = m.deleted
    /\ pc' = "delete"
    /\ UNCHANGED <<prune_vars, current_ver, allow_greater, meta, rpm_tool, deb_tool,
                   disk0, disk, run, removed, failed, prev_clean, interrupted>>

\* os.remove(p) succeeds (the set `deleted` is iterated in any order)
Remove ==
    /\ pc = "delete"
    /\ \E p \in todo :
          /\ disk' = disk \ {p}
          /\ todo' = todo \ {p}
          /\ removed' = removed \cup {p}
    /\ UNCHANGED <<prune_vars, current_ver, allow_greater, meta, rpm_tool, deb_tool,
                   disk0, run, pc, rc, rpm_map, deb_map, kept, deleted, failed,
                   prev_clean, interrupted>>

\* os.remove(p) raises; the loop reports it and goes on
RemoveFails ==
    /\ pc = "delete"
    /\ \E p \in todo : todo' = todo \ {p}
    /\ failed' = TRUE
    /\ UNCHANGED <<prune_vars, current_ver, allow_greater, meta, rpm_tool, deb_tool,
                   disk0, disk, run, pc, rc, rpm_map, deb_map, kept, deleted, removed,
                   prev_clean, interrupted>>

\* main returns rc
Finish ==
    /\ pc = "delete"
    /\ todo = {}
    /\ pc' = "exited"
    /\ UNCHANGED <<prune_vars, current_ver, allow_greater, meta, rpm_tool, deb_tool,
                   disk0, disk, run, rc, rpm_map, deb_map, kept, deleted, todo, removed,
                   failed, prev_clean, interrupted>>

\* the process is killed inside the deletion loop
Kill ==
    /\ pc = "delete"
    /\ todo # {}
    /\ pc' = "killed"
    /\ interrupted' = (interrupted \/ removed # {})
    /\ UNCHANGED <<prune_vars, current_ver, allow_greater, meta, rpm_tool, deb_tool,
                   disk0, disk, run, rc, rpm_map, deb_map, kept, deleted, todo, removed,
                   failed, prev_clean>>

\* the tool is invoked again with the same arguments
Rerun ==
    /\ pc \in {"exited", "killed"}
    /\ run < MaxRuns
    /\ run' = run + 1
    /\ pc' = "start"
    /\ prev_clean' = (pc = "exited" /\ ~failed)
    /\ rc' = 0
    /\ rpm_map' = <<>>
    /\ deb_map' = <<>>
    /\ kept' = {}
    /\ deleted' = {}
    /\ todo' = {}
    /\ removed' = {}
    /\ failed' = FALSE
    /\ UNCHANGED <<prune_vars, current_ver, allow_greater, meta, rpm_tool, deb_tool,
                   disk0, disk, interrupted>>

Next == Decide \/ Remove \/ RemoveFails \/ Finish \/ Kill \/ Rerun

Spec == Init /\ [][Next]_vars

\* a behaviour is either an exercise of the policy or a sequence of runs
InitAll == InitPrune \/ Init

NextAll == NextPrune \/ Next

SpecAll == InitAll /\ [][NextAll]_vars

(* ----------------------------- claims ---------------------------------- *)
\* the first call of SpecPrune returned a decision
Decided == stage \in {"pruned", "repruned"} /\ decision.status = "ok"

Known(items) == {i \in DOMAIN items : items[i].v # None}

\* entries of the same major and a lower minor than the current version
PrevOf(items) ==
    {i \in Known(items) :
        items[i].v[1] = current_ver[1] /\ items[i].v[2] < current_ver[2]}

\* entries of a series (major, minor) earlier than the current one
EarlierOf(items) ==
    {i \in Known(items) :
        \/ items[i].v[1] < current_ver[1]
        \/ items[i].v[1] = current_ver[1] /\ items[i].v[2] < current_ver[2]}

GreaterOf(items) == {i \in Known(items) : Version_lt(current_ver, items[i].v)}

SeriesLe(v, w) == v[1] < w[1] \/ (v[1] = w[1] /\ v[2] <= w[2])

\* main reached its deletion loop with a decision
MainDecided == pc \in {"delete", "exited", "killed"} /\ rc = 0

\* the files whose metadata query succeeded with the requested name
AppFiles == {p \in disk0 : meta[p].kind = "ok" /\ meta[p].name = app_name}

\* C1: with allow_greater set, every entry whose known version is strictly
\* greater than the current version is in the returned kept set and not in
\* the returned deleted set.
C1_GreaterKeptWhenAllowed ==
    (Decided /\ allow_greater) =>
        \A i \in GreaterOf(pkg_map) :
            /\ pkg_map[i].p \in decision.kept
            /\ pkg_map[i].p \notin decision.deleted

\* C2: for every group, prune_packages returns a decision in which each
\* entry whose version is absent is in kept and not in deleted.
C2_AbsentVersionKept ==
    (stage \in {"pruned", "repruned"} /\ Known(pkg_map) # DOMAIN pkg_map) =>
        /\ decision.status = "ok"
        /\ \A i \in DOMAIN pkg_map \ Known(pkg_map) :
              /\ pkg_map[i].p \in decision.kept
              /\ pkg_map[i].p \notin decision.deleted

\* C3: every entry whose version equals the current version is in the kept
\* set prune_packages returns and not in the deleted set, in main's kept and
\* not in main's deleted, and is never removed from disk.
C3_CurrentVersionKept ==
    /\ Decided =>
          \A i \in DOMAIN pkg_map :
              pkg_map[i].v = current_ver =>
                  /\ pkg_map[i].p \in decision.kept
                  /\ pkg_map[i].p \notin decision.deleted
    /\ MainDecided =>
          \A p \in PathsOf(rpm_map) \cup PathsOf(deb_map) :
              meta[p].v = current_ver => p \in kept /\ p \notin deleted
    /\ \A p \in AppFiles :
          (current_ver # None /\ meta[p].v = current_ver) => p \in disk

C3_Witness ==
    /\ pc = "exited"
    /\ rc = 0
    /\ removed # {}
    /\ \E p \in kept \cap disk : meta[p].v = current_ver

\* C4: the kept and deleted sets prune_packages returns are disjoint and
\* their union is the set of input paths; main's kept and deleted sets,
\* accumulated over the RPM and DEB groups, are disjoint and cover both groups.
C4_DisjointCover ==
    /\ Decided =>
          /\ decision.kept \cap decision.deleted = {}
          /\ decision.kept \cup decision.deleted = PathsOf(pkg_map)
    /\ kept \cap deleted = {}
    /\ MainDecided =>
          kept \cup deleted = PathsOf(rpm_map) \cup PathsOf(deb_map)

C4_Witness ==
    /\ pc = "delete"
    /\ rc = 0
    /\ kept \cap RpmPaths # {}
    /\ deleted \cap RpmPaths # {}
    /\ (kept \cup deleted) \cap DebPaths # {}

\* C5: every path in main's kept or deleted set, and every path removed
\* from disk, is a scanned file whose metadata query succeeded with the
\* requested name; a file of another name or whose query failed is in
\* neither set and stays on disk.
C5_OnlyAppFilesTouched ==
    /\ kept \cup deleted \cup removed \cup (disk0 \ disk) \subseteq AppFiles
    /\ \A p \in disk0 \ AppFiles : p \in disk /\ p \notin kept \cup deleted

C5_Witness ==
    /\ pc = "exited"
    /\ rc = 0
    /\ removed # {}
    /\ \E p \in disk : meta[p].kind = "ok" /\ meta[p].name # app_name
    /\ \E p \in disk : meta[p].kind = "fail"

\* C6: a run that ends with exit code 3, 4 or 5 has removed no file, also
\* when the DEB tool check follows the extraction of the RPM metadata.
C6_FatalExitRemovesNothing ==
    rc \in {3, 4, 5} => removed = {} /\ todo = {} /\ disk = disk0

C6_Witness ==
    /\ pc = "exited"
    /\ rc = 5
    /\ rpm_map # <<>>
    /\ prune_packages(rpm_map, current_ver, allow_greater).deleted # {}

\* C7 as stated: whenever the group holds a known-version entry of a series
\* (major, minor) earlier than the current one, kept holds an entry of the
\* most recent such earlier series.
C7_EarlierSeriesKept ==
    (Decided /\ EarlierOf(pkg_map) # {}) =>
        \E i \in EarlierOf(pkg_map) :
            /\ pkg_map[i].p \in decision.kept
            /\ \A j \in EarlierOf(pkg_map) : SeriesLe(pkg_map[j].v, pkg_map[i].v)

\* C7 amended: whenever the group holds a known-version entry of the same
\* major and a lower minor than the current version, every decision
\* returned keeps an entry of the highest version among those entries.
C7_PreviousSeriesKept ==
    (Decided /\ PrevOf(pkg_map) # {}) =>
        \E i \in PrevOf(pkg_map) :
            /\ pkg_map[i].p \in decision.kept
            /\ \A j \in PrevOf(pkg_map) : ~Version_lt(pkg_map[i].v, pkg_map[j].v)

C7_Witness ==
    /\ Decided
    /\ \E i, j \in PrevOf(pkg_map) :
          /\ pkg_map[i].v[2] < pkg_map[j].v[2]
          /\ pkg_map[j].p \in decision.kept
          /\ pkg_map[i].p \in decision.deleted

\* C8: prune_packages, called again with the same current version and flag
\* on the entries of the kept set of a first call, returns an empty deleted
\* set and a kept set equal to its input.
C8_Idempotent ==
    stage = "repruned" =>
        /\ decision2.status = "ok"
        /\ decision2.deleted = {}
        /\ decision2.kept = PathsOf(pkg_map2)
        /\ PathsOf(pkg_map2) = decision.kept

C8_Witness ==
    /\ stage = "repruned"
    /\ Cardinality(decision.kept) >= 2
    /\ decision.deleted # {}
    /\ \E i \in PrevOf(pkg_map2) : TRUE

\* the disk states a single uninterrupted run can leave from the original
\* repository, over the orders in which the directories can be listed
UninterruptedOutcomes ==
    {disk0 \ main_decide(rpm_files, deb_files).deleted :
        rpm_files \in Perms(disk0 \cap RpmPaths),
        deb_files \in Perms(disk0 \cap DebPaths)}

\* C9: after a run was killed having removed part of its deleted set, a
\* re-run that returns with every removal succeeding leaves on disk the
\* files a single uninterrupted run leaves; a run that follows a run which
\* returned with every removal succeeding deletes nothing.
C9_RerunConverges ==
    /\ (run >= 2 /\ pc = "exited" /\ ~failed) => disk \in UninterruptedOutcomes
    /\ (prev_clean /\ pc # "start") => deleted = {} /\ removed = {}

C9_Witness ==
    /\ run = 3
    /\ pc = "exited"
    /\ prev_clean
    /\ interrupted
    /\ Cardinality(disk0 \ disk) >= 2
    /\ disk # {}

\* C10: with all versions known and allow_greater false, kept holds at most
\* one entry whose version differs from the current version; it exists
\* exactly when some entry has the same major and a lower minor, and it has
\* the greatest version among those entries; every other entry (older
\* patches of the current series, versions above current, other previous
\* entries) is in deleted.
C10_SingleRollbackTarget ==
    (Decided /\ ~allow_greater) =>
        LET extra == {i \in DOMAIN pkg_map :
                        pkg_map[i].p \in decision.kept /\ pkg_map[i].v # current_ver}
        IN  /\ Cardinality(extra) <= 1
            /\ (extra # {}) <=> (PrevOf(pkg_map) # {})
            /\ \A i \in extra :
                  /\ i \in PrevOf(pkg_map)
                  /\ \A j \in PrevOf(pkg_map) : ~Version_lt(pkg_map[i].v, pkg_map[j].v)
            /\ \A i \in DOMAIN pkg_map :
                  (pkg_map[i].v # current_ver /\ i \notin extra) =>
                      pkg_map[i].p \in decision.deleted
            /\ \A i \in DOMAIN pkg_map :
                  pkg_map[i].v = current_ver => pkg_map[i].p \in decision.kept

C10_Witness ==
    /\ Decided
    /\ ~allow_greater
    /\ \E i, j \in PrevOf(pkg_map) :
          /\ pkg_map[i].v[2] < pkg_map[j].v[2]
          /\ pkg_map[j].p \in decision.kept
          /\ pkg_map[i].p \in decision.deleted
    /\ \E i \in GreaterOf(pkg_map) : pkg_map[i].p \in decision.deleted

====
